---- MODULE Spec2Model ----
(***************************************************************************)
(* gluesql-encryption: EncryptedStore, a decorator that seals every value  *)
(* written to an underlying row store with an AEAD cipher and opens every  *)
(* value read back, plus change_key (key rotation).                        *)
(*                                                                         *)
(* Bytes are modelled as "words": a word is a sequence of naturals.  A     *)
(* plain byte b is the one-element word <<b>>.  The authentication tag is  *)
(* TagLen words, each carrying the whole MAC input (key, nonce, associated *)
(* data, ciphertext): the tag of an ideal MAC, injective in its input, so  *)
(* that a tag verifies exactly when it was computed over the same input    *)
(* with the same key.                                                      *)
(***************************************************************************)
EXTENDS Integers, Sequences, FiniteSets, TLC

\* ---------------------------------------------------------------- bounds
NumKeys == 2        \* keys are 1..NumKeys
MaxNonce == 4       \* the sequencer yields MaxNonce nonces, then fails
NonceLen == 2       \* key.algorithm().nonce_len(), scaled down
TagLen == 1         \* key.algorithm().tag_len(), scaled down
NonceRadix == 3     \* a nonce byte is a digit 0..NonceRadix-1 of the counter

KeySet == 1..NumKeys

\* ------------------------------------------------------------------ Value
W(b) == <<b>>

I64(n) == [tag |-> "I64", data |-> <<W(n)>>]
Bytea(ws) == [tag |-> "Bytea", data |-> ws]
Null == [tag |-> "Null", data |-> <<>>]

\* ----------------------------------------------------------------- helpers
RECURSIVE Flat(_)
Flat(ws) ==
    IF ws = <<>> THEN <<>>
    ELSE <<Len(Head(ws))>> \o Head(ws) \o Flat(Tail(ws))

RECURSIVE Sum(_)
Sum(s) == IF s = <<>> THEN 0 ELSE Head(s) + Sum(Tail(s))

IsByte(w) == Len(w) = 1

\* ----------------------------------------------------------- Value Codec
\* postcard::to_extend(value, buf): variant index, then the payload
\* (zigzag varint for I64, length-prefixed bytes for Bytea).
VariantIndex(t) ==
    CASE t = "I64" -> 4
      [] t = "Bytea" -> 15
      [] OTHER -> 22

Serialize(v) ==
    CASE v.tag = "I64" -> <<W(VariantIndex("I64")), W(2 * v.data[1][1])>>
      [] v.tag = "Bytea" ->
            <<W(VariantIndex("Bytea")), W(Len(v.data))>> \o v.data
      [] OTHER -> <<W(VariantIndex("Null"))>>

\* postcard::from_bytes(buf): reads one Value from the front of buf; bytes
\* left over after the value are ignored; a buffer that ends early or
\* starts with an unknown variant index is an error.
Deserialize(buf) ==
    LET bad == [ok |-> FALSE, value |-> Null]
    IN  IF Len(buf) = 0 \/ ~IsByte(buf[1]) THEN bad
        ELSE LET idx == buf[1][1]
             IN  CASE idx = VariantIndex("Null") -> [ok |-> TRUE, value |-> Null]
                   [] idx = VariantIndex("I64") ->
                        IF Len(buf) < 2 \/ ~IsByte(buf[2]) \/ buf[2][1] % 2 # 0
                        THEN bad
                        ELSE [ok |-> TRUE, value |-> I64(buf[2][1] \div 2)]
                   [] idx = VariantIndex("Bytea") ->
                        IF Len(buf) < 2 \/ ~IsByte(buf[2]) THEN bad
                        ELSE LET n == buf[2][1]
                             IN  IF n < 0 \/ Len(buf) < 2 + n THEN bad
                                 ELSE [ok |-> TRUE,
                                       value |-> Bytea(SubSeq(buf, 3, 2 + n))]
                   [] OTHER -> bad

\* ---------------------------------------------------------- Cipher Engine
\* The key stream of (key, nonce) at position i; never zero, so sealing is
\* never the identity.
KeyStream(k, nonce, i) == k + Sum(Flat(nonce)) + i

SealWord(w, s) == [j \in 1..Len(w) |-> w[j] + s]
OpenWord(w, s) == [j \in 1..Len(w) |-> w[j] - s]

\* Aad::from(*nonce.as_ref())
Aad(nonce) == nonce

Tag(k, nonce, aad, ct) ==
    [j \in 1..TagLen |-> <<j, k>> \o Flat(nonce) \o Flat(aad) \o Flat(ct)]

\* LessSafeKey::seal_in_place_separate_tag(nonce, aad, in_out)
seal_in_place_separate_tag(k, nonce, aad, pt) ==
    LET ct == [i \in 1..Len(pt) |-> SealWord(pt[i], KeyStream(k, nonce, i))]
    IN  [ct |-> ct, tag |-> Tag(k, nonce, aad, ct)]

\* Faulty variant of open_in_place: the tag is not compared.
open_in_place_unchecked(k, nonce, aad, in_out) ==
    IF Len(in_out) < TagLen THEN [ok |-> FALSE, buf |-> in_out]
    ELSE LET n == Len(in_out) - TagLen
         IN  [ok |-> TRUE,
              buf |-> [i \in 1..n |-> OpenWord(in_out[i], KeyStream(k, nonce, i))]
                      \o SubSeq(in_out, n + 1, Len(in_out))]

\* LessSafeKey::open_in_place(nonce, aad, in_out): in_out is ciphertext
\* followed by the tag.  On success the front of in_out holds the plaintext
\* and the tag bytes stay behind it.
open_in_place(k, nonce, aad, in_out) ==
    IF Len(in_out) < TagLen THEN [ok |-> FALSE, buf |-> in_out]
    ELSE LET n == Len(in_out) - TagLen
             ct == SubSeq(in_out, 1, n)
             tag == SubSeq(in_out, n + 1, Len(in_out))
         IN  IF tag # Tag(k, nonce, aad, ct) THEN [ok |-> FALSE, buf |-> in_out]
             ELSE [ok |-> TRUE,
                   buf |-> [i \in 1..n |-> OpenWord(ct[i], KeyStream(k, nonce, i))]
                           \o tag]

\* -------------------------------------------------------- Nonce Sequencer
\* A sequencer that never repeats: a counter written as NonceLen digits.
\* Its state is the number of nonces issued.
RECURSIVE Digits(_, _)
Digits(n, len) ==
    IF len = 0 THEN <<>>
    ELSE Digits(n \div NonceRadix, len - 1) \o <<W(n % NonceRadix)>>

advance(seq) ==
    IF seq < MaxNonce
    THEN [ok |-> TRUE, nonce |-> Digits(seq, NonceLen), seq |-> seq + 1]
    ELSE [ok |-> FALSE, nonce |-> <<>>, seq |-> seq]

\* ----------------------------------------------------------- Value Crypto
\* Faulty variant of encrypt_value_in_place: it advances the sequencer but
\* seals under the all-zero nonce it started from.
encrypt_value_zero_nonce(k, seq, value) ==
    LET a == advance(seq)
        nonce == Digits(0, NonceLen)
    IN  IF ~a.ok
        THEN [status |-> "EncryptionError", seq |-> a.seq, value |-> value]
        ELSE LET sealed == seal_in_place_separate_tag(k, nonce, Aad(nonce),
                                                      Serialize(value))
             IN  [status |-> "Ok", seq |-> a.seq,
                  value |-> Bytea(nonce \o sealed.ct \o sealed.tag)]

\* Faulty variant of decrypt_value_in_place: it opens with empty associated
\* data instead of the nonce.
decrypt_value_empty_aad(k, value) ==
    IF value.tag # "Bytea"
    THEN [status |-> "Ok", applied |-> FALSE, value |-> value]
    ELSE IF Len(value.data) < NonceLen
    THEN [status |-> "Panic", applied |-> FALSE, value |-> value]
    ELSE LET nonce == SubSeq(value.data, 1, NonceLen)
             ciphertext == SubSeq(value.data, NonceLen + 1, Len(value.data))
             opened == open_in_place(k, nonce, <<>>, ciphertext)
             d == Deserialize(opened.buf)
         IN  IF ~opened.ok
             THEN [status |-> "EncryptionError", applied |-> FALSE, value |-> value]
             ELSE IF ~d.ok
             THEN [status |-> "SerializationError", applied |-> FALSE,
                   value |-> value]
             ELSE [status |-> "Ok", applied |-> TRUE, value |-> d.value]

\* Faulty variant of decrypt_value_in_place: a value that is not Bytea is
\* refused instead of being passed through.
decrypt_value_strict(k, value) ==
    IF value.tag # "Bytea"
    THEN [status |-> "InvalidValue", applied |-> FALSE, value |-> value]
    ELSE IF Len(value.data) < NonceLen
    THEN [status |-> "Panic", applied |-> FALSE, value |-> value]
    ELSE LET nonce == SubSeq(value.data, 1, NonceLen)
             ciphertext == SubSeq(value.data, NonceLen + 1, Len(value.data))
             opened == open_in_place(k, nonce, Aad(nonce), ciphertext)
             d == Deserialize(opened.buf)
         IN  IF ~opened.ok
             THEN [status |-> "EncryptionError", applied |-> FALSE, value |-> value]
             ELSE IF ~d.ok
             THEN [status |-> "SerializationError", applied |-> FALSE,
                   value |-> value]
             ELSE [status |-> "Ok", applied |-> TRUE, value |-> d.value]

\* Faulty variant of decrypt_value_in_place: it opens the stored bytes
\* themselves instead of a clone, so a failure leaves the value without its
\* nonce.
decrypt_value_in_situ(k, value) ==
    IF value.tag # "Bytea"
    THEN [status |-> "Ok", applied |-> FALSE, value |-> value]
    ELSE IF Len(value.data) < NonceLen
    THEN [status |-> "Panic", applied |-> FALSE, value |-> value]
    ELSE LET nonce == SubSeq(value.data, 1, NonceLen)
             ciphertext == SubSeq(value.data, NonceLen + 1, Len(value.data))
             opened == open_in_place(k, nonce, Aad(nonce), ciphertext)
             d == Deserialize(opened.buf)
         IN  IF ~opened.ok
             THEN [status |-> "EncryptionError", applied |-> FALSE,
                   value |-> Bytea(opened.buf)]
             ELSE IF ~d.ok
             THEN [status |-> "SerializationError", applied |-> FALSE,
                   value |-> Bytea(opened.buf)]
             ELSE [status |-> "Ok", applied |-> TRUE, value |-> d.value]

\* ----------------------------------------------------------- Value Crypto
\* encdec.rs encrypt_value_in_place
encrypt_value_in_place(k, seq, value) ==
    LET a == advance(seq)
    IN  IF ~a.ok
        THEN [status |-> "EncryptionError", seq |-> a.seq, value |-> value]
        ELSE LET plain == Serialize(value)
                 sealed == seal_in_place_separate_tag(k, a.nonce, Aad(a.nonce), plain)
             IN  [status |-> "Ok", seq |-> a.seq,
                  value |-> Bytea(a.nonce \o sealed.ct \o sealed.tag)]

\* encdec.rs decrypt_value_in_place
decrypt_value_in_place(k, value) ==
    IF value.tag # "Bytea"
    THEN [status |-> "Ok", applied |-> FALSE, value |-> value]
    ELSE LET decrypted == value.data
         IN  IF Len(decrypted) < NonceLen
             THEN \* split_at_mut: mid > len
                  [status |-> "Panic", applied |-> FALSE, value |-> value]
             ELSE LET nonce == SubSeq(decrypted, 1, NonceLen)
                      ciphertext == SubSeq(decrypted, NonceLen + 1, Len(decrypted))
                      opened == open_in_place(k, nonce, Aad(nonce), ciphertext)
                  IN  IF ~opened.ok
                      THEN [status |-> "EncryptionError", applied |-> FALSE,
                            value |-> value]
                      ELSE LET d == Deserialize(opened.buf)
                           IN  IF ~d.ok
                               THEN [status |-> "SerializationError",
                                     applied |-> FALSE, value |-> value]
                               ELSE [status |-> "Ok", applied |-> TRUE,
                                     value |-> d.value]

\* value is a blob that opens under k
SealedUnder(k, v) ==
    /\ v.tag = "Bytea"
    /\ decrypt_value_in_place(k, v).status = "Ok"

\* blob = nonce || ciphertext || tag: the nonce a blob carries
NonceOf(value) == SubSeq(value.data, 1, NonceLen)

\* -------------------------------------------------------------- Row Crypto
\* DataRow::Vec(values) and DataRow::Map(name -> value); a Map's values are
\* visited in the order of cols.  NoRow stands for Option::None.
VecRow(vals) == [kind |-> "Vec", cols |-> <<>>, vals |-> vals]
MapRow(cols, vals) == [kind |-> "Map", cols |-> cols, vals |-> vals]
NoRow == [kind |-> "None", cols |-> <<>>, vals |-> <<>>]

\* the loop of encrypt_row_in_place: stops at the first failure; nonces are
\* the nonces carried by the blobs of the encryptions that completed
RECURSIVE encrypt_values(_, _, _)
encrypt_values(k, seq, vals) ==
    IF vals = <<>>
    THEN [status |-> "Ok", seq |-> seq, vals |-> <<>>, nonces |-> <<>>]
    ELSE LET more(r, rest) ==
                 [status |-> rest.status, seq |-> rest.seq,
                  vals |-> <<r.value>> \o rest.vals,
                  nonces |-> <<NonceOf(r.value)>> \o rest.nonces]
             each(r) ==
                 IF r.status # "Ok"
                 THEN [status |-> r.status, seq |-> r.seq, vals |-> vals,
                       nonces |-> <<>>]
                 ELSE more(r, encrypt_values(k, r.seq, Tail(vals)))
         IN  each(encrypt_value_in_place(k, seq, Head(vals)))

\* Faulty variant of encrypt_row_in_place: only a Vec row is encrypted.
encrypt_row_vec_only(k, seq, row) ==
    LET done(r) == [status |-> r.status, seq |-> r.seq, nonces |-> r.nonces,
                    row |-> [row EXCEPT !.vals = r.vals]]
    IN  IF row.kind = "Vec"
        THEN done(encrypt_values(k, seq, row.vals))
        ELSE [status |-> "Ok", seq |-> seq, nonces |-> <<>>, row |-> row]

\* encdec.rs encrypt_row_in_place: both variants encrypt every value
encrypt_row_in_place(k, seq, row) ==
    LET done(r) == [status |-> r.status, seq |-> r.seq, nonces |-> r.nonces,
                    row |-> [row EXCEPT !.vals = r.vals]]
    IN  done(encrypt_values(k, seq, row.vals))

RECURSIVE decrypt_values(_, _)
decrypt_values(k, vals) ==
    IF vals = <<>> THEN [status |-> "Ok", vals |-> <<>>]
    ELSE LET more(r, rest) ==
                 [status |-> rest.status, vals |-> <<r.value>> \o rest.vals]
             each(r) ==
                 IF r.status # "Ok" THEN [status |-> r.status, vals |-> vals]
                 ELSE more(r, decrypt_values(k, Tail(vals)))
         IN  each(decrypt_value_in_place(k, Head(vals)))

\* Faulty variant of decrypt_row_in_place: when a value fails, the values
\* after the last one decrypted are dropped from the row.
decrypt_row_truncating(k, row) ==
    LET done(r) == [status |-> r.status,
                    row |-> [row EXCEPT !.vals =
                                IF r.status = "Ok" THEN r.vals
                                ELSE SubSeq(r.vals, 1, Len(r.vals) - 1)]]
    IN  done(decrypt_values(k, row.vals))

\* encdec.rs decrypt_row_in_place
decrypt_row_in_place(k, row) ==
    LET done(r) == [status |-> r.status, row |-> [row EXCEPT !.vals = r.vals]]
    IN  done(decrypt_values(k, row.vals))

\* the loop of the write path over the rows of one call (lib.rs 200-203 and
\* 213-216): every row is encrypted before anything is forwarded
RECURSIVE encrypt_rows(_, _, _)
encrypt_rows(k, seq, rows) ==
    IF rows = <<>>
    THEN [status |-> "Ok", seq |-> seq, rows |-> <<>>, nonces |-> <<>>]
    ELSE LET more(r, rest) ==
                 [status |-> rest.status, seq |-> rest.seq,
                  rows |-> <<r.row>> \o rest.rows,
                  nonces |-> r.nonces \o rest.nonces]
             each(r) ==
                 IF r.status # "Ok"
                 THEN [status |-> r.status, seq |-> r.seq, rows |-> rows,
                       nonces |-> r.nonces]
                 ELSE more(r, encrypt_rows(k, r.seq, Tail(rows)))
         IN  each(encrypt_row_in_place(k, seq, Head(rows)))

\* the value loops of change_key (lib.rs 105-128): a Map row re-encrypts
\* every value, a Vec row only the values decrypt_value_in_place opened
RECURSIVE rotate_values(_, _, _, _, _)
rotate_values(kind, old_key, new_key, seq, vals) ==
    IF vals = <<>>
    THEN [status |-> "Ok", seq |-> seq, vals |-> <<>>, nonces |-> <<>>]
    ELSE LET kept(d, rest) == [rest EXCEPT !.vals = <<d.value>> \o @]
             more(e, rest) ==
                 [status |-> rest.status, seq |-> rest.seq,
                  vals |-> <<e.value>> \o rest.vals,
                  nonces |-> <<NonceOf(e.value)>> \o rest.nonces]
             encrypted(e) ==
                 IF e.status # "Ok"
                 THEN [status |-> e.status, seq |-> e.seq, vals |-> vals,
                       nonces |-> <<>>]
                 ELSE more(e, rotate_values(kind, old_key, new_key, e.seq,
                                            Tail(vals)))
             decrypted(d) ==
                 IF d.status # "Ok"
                 THEN [status |-> d.status, seq |-> seq, vals |-> vals,
                       nonces |-> <<>>]
                 ELSE IF kind = "Vec" /\ ~d.applied
                 THEN kept(d, rotate_values(kind, old_key, new_key, seq,
                                            Tail(vals)))
                 ELSE encrypted(encrypt_value_in_place(new_key, seq, d.value))
         IN  decrypted(decrypt_value_in_place(old_key, Head(vals)))

\* Faulty variant of rotate_row: the values are sealed again under self.key.
rotate_row_old_key(old_key, new_key, seq, row) ==
    LET done(r) == [status |-> r.status, seq |-> r.seq, nonces |-> r.nonces,
                    row |-> [row EXCEPT !.vals = r.vals]]
    IN  done(rotate_values(row.kind, old_key, old_key, seq, row.vals))

\* Faulty variant of rotate_row: a value that fails does not stop the row,
\* which is handed back as far as it got.
rotate_row_ignore_error(old_key, new_key, seq, row) ==
    LET done(r) == [status |-> "Ok", seq |-> r.seq, nonces |-> r.nonces,
                    row |-> [row EXCEPT !.vals = r.vals]]
    IN  done(rotate_values(row.kind, old_key, new_key, seq, row.vals))

rotate_row(old_key, new_key, seq, row) ==
    LET done(r) == [status |-> r.status, seq |-> r.seq, nonces |-> r.nonces,
                    row |-> [row EXCEPT !.vals = r.vals]]
    IN  done(rotate_values(row.kind, old_key, new_key, seq, row.vals))

\* ------------------------------------------------------------------ state
MaxRowKey == 2      \* row keys are 1..MaxRowKey
MaxBatch == 2       \* rows per insert_data / append_data call

VARIABLES
    key,             \* EncryptedStore.key (lib.rs 46)
    nonce_sequence,  \* EncryptedStore.nonce_sequence (lib.rs 48)
    store,           \* EncryptedStore.store: the rows the underlying store holds
    pc,              \* "idle", "rotating" (inside change_key), "aborted"
    rot,             \* the locals of change_key
    pre,             \* the underlying store when change_key was called (kept
                     \* until the next call)
    plain,           \* an undecorated store given the same successful calls
    sealed,          \* <<key, nonce>> of every completed encryption
    nSealed,         \* number of completed encryptions
    last,            \* the last call: its result, the rows it forwarded or returned
    opens,           \* how many times the store was reopened with new
    vc,              \* Value Crypto on its own: the `value: &mut Value` argument
    rc               \* Row Crypto on its own: the `row: &mut DataRow` argument

vars == <<key, nonce_sequence, store, pc, rot, pre, plain, sealed,
          nSealed, last, opens, vc, rc>>

storeVars == <<store, plain>>
rotVars == <<pc, rot>>
codecVars == <<opens, vc, rc>>

RowKeys == 1..MaxRowKey

\* The tables of the underlying store, in the order fetch_all_schemas lists
\* them: "Bar" is schemaless (Map rows), "Foo" has columns (Vec rows).
Tables == <<"Bar", "Foo">>
TableSet == {Tables[i] : i \in 1..Len(Tables)}

\* the rows callers write
RowInputs(t) ==
    IF t = "Foo"
    THEN {VecRow(<<I64(1)>>), VecRow(<<Bytea(<<W(1)>>), I64(2)>>)}
    ELSE {MapRow(<<"a">>, <<I64(1)>>),
          MapRow(<<"a", "b">>, <<Null, Bytea(<<W(1)>>)>>)}

\* the DEFAULT values add_column fills existing rows with
Defaults == {Null}

EmptyTable == [k \in RowKeys |-> NoRow]
EmptyStore == [t \in TableSet |-> EmptyTable]

\* value: the argument as it is now; orig: what it was before the latest
\* encrypt_value_in_place; fresh: value is the blob that call returned;
\* altered: value is such a blob with one word changed afterwards;
\* produced: <<key, blob>> of every blob encrypt_value_in_place returned;
\* arg, dkey, applied, argFresh, argAltered: the latest decrypt_value_in_place
\* call, its argument before the call and what that argument was
NoCodec == [value |-> Null, orig |-> Null, fresh |-> FALSE, altered |-> FALSE,
            produced |-> {}, arg |-> Null, dkey |-> 0, applied |-> FALSE,
            argFresh |-> FALSE, argAltered |-> FALSE]

\* row: the argument as it is now; arg: what it was before the latest
\* encrypt_row_in_place or decrypt_row_in_place call; rkey: the key of that call
NoRowCodec == [row |-> NoRow, arg |-> NoRow, rkey |-> 0]

\* old_key is self.key and new_key the key change_key was given; tables and
\* keys are what its two loops have left to visit; written is the set of
\* <<table, key>> it has written back.  The record stays as change_key left
\* it until the next call.
NoRot == [old_key |-> 0, new_key |-> 0, tables |-> <<>>, keys |-> <<>>,
          scanned |-> FALSE, written |-> {}]

Item(k, status, row) == [key |-> k, status |-> status, row |-> row]
\* a call, its result, the rows it forwarded or returned; drawn is the number
\* of encryptions a write call completed
Call(op, status, t, rows) ==
    [op |-> op, status |-> status, table |-> t, rows |-> rows, drawn |-> 0]

\* EncryptedStore::new (lib.rs 61-67) over an empty store
Init ==
    /\ key = 1
    /\ nonce_sequence = 0
    /\ store = EmptyStore
    /\ pc = "idle"
    /\ rot = NoRot
    /\ pre = EmptyStore
    /\ plain = EmptyStore
    /\ sealed = {}
    /\ nSealed = 0
    /\ last = Call("new", "Ok", "", <<>>)
    /\ opens = 0
    /\ vc = NoCodec
    /\ rc = NoRowCodec

\* ------------------------------------------------- the underlying store
RECURSIVE StoreInsert(_, _, _)
StoreInsert(tbl, ks, rows) ==
    IF rows = <<>> THEN tbl
    ELSE StoreInsert([tbl EXCEPT ![Head(ks)] = Head(rows)], Tail(ks), Tail(rows))

\* the keys the table does not hold, ascending
RECURSIVE FreeFrom(_, _)
FreeFrom(tbl, k) ==
    IF k > MaxRowKey THEN <<>>
    ELSE (IF tbl[k] = NoRow THEN <<k>> ELSE <<>>) \o FreeFrom(tbl, k + 1)

\* append_data of the underlying store: it gives each row a key of its own
AppendKeys(tbl, n) == SubSeq(FreeFrom(tbl, 1), 1, n)

\* the keys of a table in scan order
RECURSIVE KeysFrom(_, _)
KeysFrom(tbl, k) ==
    IF k > MaxRowKey THEN <<>>
    ELSE (IF tbl[k] = NoRow THEN <<>> ELSE <<k>>) \o KeysFrom(tbl, k + 1)

ScanKeys(tbl) == KeysFrom(tbl, 1)

\* record the completed encryptions of a call
Log(k, nonces) ==
    /\ sealed' = sealed \cup {<<k, nonces[i]>> : i \in 1..Len(nonces)}
    /\ nSealed' = nSealed + Len(nonces)

\* batches of a call: rows under strictly increasing keys
Batches(t) ==
    UNION {[1..n -> RowInputs(t)] : n \in 1..MaxBatch}
KeyLists(n) ==
    {ks \in [1..n -> RowKeys] : \A i \in 1..n - 1 : ks[i] < ks[i + 1]}

Items(ks, rows) == [i \in 1..Len(rows) |-> Item(ks[i], "Ok", rows[i])]

\* ------------------------------------------------------------ write path
\* Faulty variant of insert_data: each row is forwarded as soon as it is
\* encrypted, so the rows before a failing one reach the underlying store.
insert_data_eager(t, ks, rows) ==
    /\ pc = "idle"
    /\ LET done(e) == {i \in 1..Len(rows) :
                         \A j \in 1..Len(rows[i].vals) :
                            SealedUnder(key, e.rows[i].vals[j])}
           put(tbl, rs, is) == [k \in RowKeys |->
                                  IF \E i \in is : ks[i] = k
                                  THEN rs[CHOOSE i \in is : ks[i] = k]
                                  ELSE tbl[k]]
           forward(e, is) ==
               /\ nonce_sequence' = e.seq
               /\ Log(key, e.nonces)
               /\ store' = [store EXCEPT ![t] = put(@, e.rows, is)]
               /\ plain' = [plain EXCEPT ![t] = put(@, rows, is)]
               /\ IF e.status # "Ok"
                  THEN last' = [Call("insert_data", "StorageMsg", t, <<>>)
                                   EXCEPT !.drawn = Len(e.nonces)]
                  ELSE last' = [Call("insert_data", "Ok", t, Items(ks, e.rows))
                                   EXCEPT !.drawn = Len(e.nonces)]
           encrypted(e) == forward(e, done(e))
       IN  encrypted(encrypt_rows(key, nonce_sequence, rows))
    /\ pre' = EmptyStore
    /\ rot' = NoRot
    /\ UNCHANGED <<key, pc, codecVars>>

\* lib.rs 210-219
insert_data(t, ks, rows) ==
    /\ pc = "idle"
    /\ LET forward(e) ==
               /\ nonce_sequence' = e.seq
               /\ Log(key, e.nonces)
               /\ IF e.status # "Ok"
                  THEN /\ last' = [Call("insert_data", "StorageMsg", t, <<>>)
                                      EXCEPT !.drawn = Len(e.nonces)]
                       /\ UNCHANGED storeVars
                  ELSE /\ last' = [Call("insert_data", "Ok", t, Items(ks, e.rows))
                                      EXCEPT !.drawn = Len(e.nonces)]
                       /\ store' = [store EXCEPT ![t] = StoreInsert(@, ks, e.rows)]
                       /\ plain' = [plain EXCEPT ![t] = StoreInsert(@, ks, rows)]
       IN  forward(encrypt_rows(key, nonce_sequence, rows))
    /\ pre' = EmptyStore
    /\ rot' = NoRot
    /\ UNCHANGED <<key, pc, codecVars>>

\* lib.rs 197-208
append_data(t, rows) ==
    /\ pc = "idle"
    /\ Len(FreeFrom(store[t], 1)) >= Len(rows)
    /\ LET forward(e, ks) ==
               /\ nonce_sequence' = e.seq
               /\ Log(key, e.nonces)
               /\ IF e.status # "Ok"
                  THEN /\ last' = [Call("append_data", "StorageMsg", t, <<>>)
                                      EXCEPT !.drawn = Len(e.nonces)]
                       /\ UNCHANGED storeVars
                  ELSE /\ last' = [Call("append_data", "Ok", t, Items(ks, e.rows))
                                      EXCEPT !.drawn = Len(e.nonces)]
                       /\ store' = [store EXCEPT ![t] = StoreInsert(@, ks, e.rows)]
                       /\ plain' = [plain EXCEPT ![t] = StoreInsert(@, ks, rows)]
       IN  forward(encrypt_rows(key, nonce_sequence, rows),
                   AppendKeys(store[t], Len(rows)))
    /\ pre' = EmptyStore
    /\ rot' = NoRot
    /\ UNCHANGED <<key, pc, codecVars>>

\* lib.rs 221-223
delete_data(t, k) ==
    /\ pc = "idle"
    /\ store[t][k] # NoRow
    /\ last' = Call("delete_data", "Ok", t, <<>>)
    /\ store' = [store EXCEPT ![t][k] = NoRow]
    /\ plain' = [plain EXCEPT ![t][k] = NoRow]
    /\ pre' = EmptyStore
    /\ rot' = NoRot
    /\ UNCHANGED <<key, nonce_sequence, pc, sealed, nSealed, codecVars>>

\* Faulty variant of add_column: the default is sealed under self.key before
\* the call is forwarded.
add_column_sealing(t, dflt) ==
    /\ pc = "idle"
    /\ t = "Foo"
    /\ \A k \in RowKeys : Len(store[t][k].vals) < 2
    /\ \E k \in RowKeys : store[t][k] # NoRow
    /\ LET grow(tbl, v) == [k \in RowKeys |->
                              IF tbl[k] = NoRow THEN NoRow
                              ELSE [tbl[k] EXCEPT !.vals = Append(@, v)]]
           forward(e) ==
               /\ nonce_sequence' = e.seq
               /\ Log(key, IF e.status = "Ok" THEN <<NonceOf(e.value)>> ELSE <<>>)
               /\ last' = Call("add_column", "Ok", t, <<>>)
               /\ store' = [store EXCEPT ![t] = grow(@, e.value)]
               /\ plain' = [plain EXCEPT ![t] = grow(@, dflt)]
       IN  forward(encrypt_value_in_place(key, nonce_sequence, dflt))
    /\ pre' = EmptyStore
    /\ rot' = NoRot
    /\ UNCHANGED <<key, pc, codecVars>>

\* lib.rs 243-245: forwarded as is; the underlying store appends the column's
\* default, in plaintext, to every row of a table that has columns
add_column(t, dflt) ==
    /\ pc = "idle"
    /\ t = "Foo"
    /\ \A k \in RowKeys : Len(store[t][k].vals) < 2
    /\ \E k \in RowKeys : store[t][k] # NoRow
    /\ LET grow(tbl) == [k \in RowKeys |->
                           IF tbl[k] = NoRow THEN NoRow
                           ELSE [tbl[k] EXCEPT !.vals = Append(@, dflt)]]
       IN  /\ last' = Call("add_column", "Ok", t, <<>>)
           /\ store' = [store EXCEPT ![t] = grow(@)]
           /\ plain' = [plain EXCEPT ![t] = grow(@)]
    /\ pre' = EmptyStore
    /\ rot' = NoRot
    /\ UNCHANGED <<key, nonce_sequence, pc, sealed, nSealed, codecVars>>

\* ------------------------------------------------------------- read path
\* what a caller gets for one retrieved row (lib.rs 158-162, 170-175)
ReadItem(dkey, k, row) ==
    LET decrypted(d) ==
            IF d.status = "Ok" THEN Item(k, "Ok", d.row)
            ELSE IF d.status = "Panic" THEN Item(k, "Panic", NoRow)
            ELSE Item(k, "StorageMsg", NoRow)
    IN  decrypted(decrypt_row_in_place(dkey, row))

\* Faulty variant of FetchResult: the row is handed back as stored.
FetchResultRaw(dkey, tbl, t, k, fault) ==
    IF fault THEN Call("fetch_data", "StoreError", t, <<>>)
    ELSE IF tbl[k] = NoRow THEN Call("fetch_data", "Ok", t, <<>>)
    ELSE Call("fetch_data", "Ok", t, <<Item(k, "Ok", tbl[k])>>)

\* lib.rs 154-165
FetchResult(dkey, tbl, t, k, fault) ==
    IF fault THEN Call("fetch_data", "StoreError", t, <<>>)
    ELSE IF tbl[k] = NoRow THEN Call("fetch_data", "Ok", t, <<>>)
    ELSE LET result(it) ==
                 IF it.status = "Ok" THEN Call("fetch_data", "Ok", t, <<it>>)
                 ELSE Call("fetch_data", it.status, t, <<>>)
         IN  result(ReadItem(dkey, k, tbl[k]))

\* lib.rs 167-180
ScanResult(dkey, tbl, t, fault) ==
    IF fault THEN Call("scan_data", "StoreError", t, <<>>)
    ELSE LET items(ks) ==
                 [i \in 1..Len(ks) |-> ReadItem(dkey, ks[i], tbl[ks[i]])]
         IN  Call("scan_data", "Ok", t, items(ScanKeys(tbl)))

\* ------------------------------------------------------------ change_key
Abort(err, t) ==
    /\ pc' = "aborted"
    /\ last' = Call("change_key", err, t, <<>>)

\* lib.rs 81-85
change_key_begin(new_key, fault) ==
    /\ pc = "idle"
    /\ pre' = store
    /\ IF fault
       THEN /\ Abort("StoreError", "")
            /\ rot' = [NoRot EXCEPT !.old_key = key, !.new_key = new_key]
       ELSE /\ pc' = "rotating"
            /\ rot' = [NoRot EXCEPT !.old_key = key, !.new_key = new_key,
                                    !.tables = Tables]
            /\ last' = Call("change_key", "Running", "", <<>>)
    /\ UNCHANGED <<key, nonce_sequence, storeVars, sealed, nSealed, codecVars>>

\* lib.rs 87-94: the keys of the next table
change_key_scan(fault) ==
    /\ pc = "rotating"
    /\ rot.tables # <<>>
    /\ ~rot.scanned
    /\ IF fault
       THEN /\ Abort("StoreError", Head(rot.tables))
            /\ UNCHANGED rot
       ELSE /\ rot' = [rot EXCEPT !.keys = ScanKeys(store[Head(rot.tables)]),
                                  !.scanned = TRUE]
            /\ UNCHANGED <<pc, last>>
    /\ UNCHANGED <<key, nonce_sequence, storeVars, pre, sealed, nSealed, codecVars>>

\* Faulty variant of change_key_row: a key whose row is gone is skipped and
\* the rotation goes on.
change_key_row_skip_missing(fault_fetch, fault_insert) ==
    /\ pc = "rotating"
    /\ rot.scanned
    /\ rot.keys # <<>>
    /\ LET write(t, k, r) ==
               /\ nonce_sequence' = r.seq
               /\ Log(rot.new_key, r.nonces)
               /\ IF r.status # "Ok"
                  THEN /\ Abort(r.status, t)
                       /\ UNCHANGED <<rot, store>>
                  ELSE IF fault_insert
                  THEN /\ Abort("StoreError", t)
                       /\ UNCHANGED <<rot, store>>
                  ELSE /\ store' = [store EXCEPT ![t][k] = r.row]
                       /\ rot' = [rot EXCEPT !.keys = Tail(@),
                                             !.written = @ \cup {<<t, k>>}]
                       /\ UNCHANGED <<pc, last>>
           fetched(t, k, row) ==
               IF fault_fetch
               THEN /\ Abort("StoreError", t)
                    /\ UNCHANGED <<rot, nonce_sequence, store, sealed, nSealed>>
               ELSE IF row = NoRow
               THEN /\ rot' = [rot EXCEPT !.keys = Tail(@)]
                    /\ UNCHANGED <<pc, last, nonce_sequence, store, sealed, nSealed>>
               ELSE write(t, k, rotate_row(key, rot.new_key, nonce_sequence, row))
       IN  fetched(Head(rot.tables), Head(rot.keys),
                   store[Head(rot.tables)][Head(rot.keys)])
    /\ UNCHANGED <<key, plain, pre, codecVars>>

\* Faulty variant of change_key_row: the values are rotated in the stored row
\* itself, so a row that fails part-way stays as far as it got.
change_key_row_write_through(fault_fetch, fault_insert) ==
    /\ pc = "rotating"
    /\ rot.scanned
    /\ rot.keys # <<>>
    /\ LET write(t, k, r) ==
               /\ nonce_sequence' = r.seq
               /\ Log(rot.new_key, r.nonces)
               /\ IF r.status # "Ok"
                  THEN /\ Abort(r.status, t)
                       /\ store' = [store EXCEPT ![t][k] = r.row]
                       /\ UNCHANGED rot
                  ELSE IF fault_insert
                  THEN /\ Abort("StoreError", t)
                       /\ UNCHANGED <<rot, store>>
                  ELSE /\ store' = [store EXCEPT ![t][k] = r.row]
                       /\ rot' = [rot EXCEPT !.keys = Tail(@),
                                             !.written = @ \cup {<<t, k>>}]
                       /\ UNCHANGED <<pc, last>>
           fetched(t, k, row) ==
               IF fault_fetch
               THEN /\ Abort("StoreError", t)
                    /\ UNCHANGED <<rot, nonce_sequence, store, sealed, nSealed>>
               ELSE IF row = NoRow
               THEN /\ Abort("InvalidValue", t)
                    /\ UNCHANGED <<rot, nonce_sequence, store, sealed, nSealed>>
               ELSE write(t, k, rotate_row(key, rot.new_key, nonce_sequence, row))
       IN  fetched(Head(rot.tables), Head(rot.keys),
                   store[Head(rot.tables)][Head(rot.keys)])
    /\ UNCHANGED <<key, plain, pre, codecVars>>

\* lib.rs 96-133: one row: fetch, decrypt and re-encrypt its values, write back
change_key_row(fault_fetch, fault_insert) ==
    /\ pc = "rotating"
    /\ rot.scanned
    /\ rot.keys # <<>>
    /\ LET write(t, k, r) ==
               /\ nonce_sequence' = r.seq
               /\ Log(rot.new_key, r.nonces)
               /\ IF r.status # "Ok"
                  THEN /\ Abort(r.status, t)
                       /\ UNCHANGED <<rot, store>>
                  ELSE IF fault_insert
                  THEN /\ Abort("StoreError", t)
                       /\ UNCHANGED <<rot, store>>
                  ELSE /\ store' = [store EXCEPT ![t][k] = r.row]
                       /\ rot' = [rot EXCEPT !.keys = Tail(@),
                                             !.written = @ \cup {<<t, k>>}]
                       /\ UNCHANGED <<pc, last>>
           fetched(t, k, row) ==
               IF fault_fetch
               THEN /\ Abort("StoreError", t)
                    /\ UNCHANGED <<rot, nonce_sequence, store, sealed, nSealed>>
               ELSE IF row = NoRow
               THEN /\ Abort("InvalidValue", t)
                    /\ UNCHANGED <<rot, nonce_sequence, store, sealed, nSealed>>
               ELSE write(t, k, rotate_row(key, rot.new_key, nonce_sequence, row))
       IN  fetched(Head(rot.tables), Head(rot.keys),
                   store[Head(rot.tables)][Head(rot.keys)])
    /\ UNCHANGED <<key, plain, pre, codecVars>>

\* lib.rs 87, 133-134: the keys of a table are done, on to the next schema
change_key_next_table ==
    /\ pc = "rotating"
    /\ rot.scanned
    /\ rot.keys = <<>>
    /\ rot' = [rot EXCEPT !.tables = Tail(@), !.scanned = FALSE]
    /\ UNCHANGED <<key, nonce_sequence, storeVars, pc, pre, sealed, nSealed, last,
                   codecVars>>

\* lib.rs 136-140
change_key_finish ==
    /\ pc = "rotating"
    /\ rot.tables = <<>>
    /\ key' = rot.new_key
    /\ pc' = "idle"
    /\ last' = Call("change_key", "Ok", "", <<>>)
    /\ UNCHANGED <<nonce_sequence, storeVars, rot, pre, sealed, nSealed, codecVars>>

\* ------------------------------------------------------------------ Spec
Next ==
    \/ \E t \in TableSet : \E rows \in Batches(t) :
         \E ks \in KeyLists(Len(rows)) : insert_data(t, ks, rows)
    \/ \E t \in TableSet : \E rows \in Batches(t) : append_data(t, rows)
    \/ \E t \in TableSet, k \in RowKeys : delete_data(t, k)
    \/ \E t \in TableSet, d \in Defaults : add_column(t, d)
    \/ \E k \in KeySet, fault \in BOOLEAN : change_key_begin(k, fault)
    \/ \E fault \in BOOLEAN : change_key_scan(fault)
    \/ \E ff \in BOOLEAN, fi \in BOOLEAN : change_key_row(ff, fi)
    \/ change_key_next_table
    \/ change_key_finish

Spec == Init /\ [][Next]_vars

\* -------------------------------------------------- reopening the store
\* EncryptedStore::new (lib.rs 61-67) over the store an earlier decorator
\* wrote to: it takes the key as given.  The sequencer handed in goes on
\* where the earlier one stopped.
MaxReopen == 1      \* the store is reopened at most MaxReopen times

new(k) ==
    /\ pc \in {"idle", "aborted"}
    /\ opens < MaxReopen
    /\ opens' = opens + 1
    /\ key' = k
    /\ pc' = "idle"
    /\ rot' = NoRot
    /\ pre' = EmptyStore
    /\ last' = Call("new", "Ok", "", <<>>)
    /\ UNCHANGED <<nonce_sequence, storeVars, sealed, nSealed, vc, rc>>

NextReopen == Next \/ \E k \in KeySet : new(k)

SpecReopen == Init /\ [][NextReopen]_vars

\* ------------------------------------------- Value Crypto on its own
MaxAlter == 2       \* a word of a blob is altered to one of <<0>>..<<MaxAlter>>

CodecValues ==
    {I64(0), I64(1), Null}
        \cup {Bytea([i \in 1..n |-> W(i)]) : n \in 0..NonceLen + TagLen}

InitCodec ==
    /\ key \in KeySet
    /\ nonce_sequence \in 0..MaxNonce
    /\ store = EmptyStore
    /\ pc = "idle"
    /\ rot = NoRot
    /\ pre = EmptyStore
    /\ plain = EmptyStore
    /\ sealed = {}
    /\ nSealed = 0
    /\ last = Call("new", "Ok", "", <<>>)
    /\ opens = 0
    /\ \E v \in CodecValues : vc = [NoCodec EXCEPT !.value = v, !.orig = v]
    /\ rc = NoRowCodec

\* encdec.rs 4-31 applied to vc.value
encrypt_value ==
    /\ ~vc.altered
    /\ \A p \in vc.produced : p[2] # vc.value
    /\ LET e == encrypt_value_in_place(key, nonce_sequence, vc.value)
       IN  /\ nonce_sequence' = e.seq
           /\ last' = Call("encrypt_value", e.status, "", <<>>)
           /\ IF e.status = "Ok"
              THEN /\ vc' = [vc EXCEPT !.value = e.value, !.orig = vc.value,
                                       !.fresh = TRUE,
                                       !.produced = @ \cup {<<key, e.value>>}]
                   /\ Log(key, <<NonceOf(e.value)>>)
              ELSE /\ vc' = [vc EXCEPT !.fresh = FALSE]
                   /\ UNCHANGED <<sealed, nSealed>>
    /\ UNCHANGED <<key, storeVars, rotVars, pre, opens, rc>>

\* the stored blob is changed behind the decorator's back: one word of its
\* nonce, ciphertext or tag
alter_blob(pos, w) ==
    /\ vc.fresh
    /\ pos \in 1..Len(vc.value.data)
    /\ vc.value.data[pos] # w
    /\ vc' = [vc EXCEPT !.value = Bytea([vc.value.data EXCEPT ![pos] = w]),
                        !.fresh = FALSE, !.altered = TRUE]
    /\ last' = Call("alter_blob", "Ok", "", <<>>)
    /\ UNCHANGED <<key, nonce_sequence, storeVars, rotVars, pre, sealed, nSealed,
                   opens, rc>>

\* encdec.rs 54-79 applied to vc.value, under key k
decrypt_value(k) ==
    /\ LET d == decrypt_value_in_place(k, vc.value)
       IN  /\ vc' = [vc EXCEPT !.value = d.value, !.arg = vc.value, !.dkey = k,
                               !.applied = d.applied, !.argFresh = vc.fresh,
                               !.argAltered = vc.altered, !.fresh = FALSE,
                               !.altered = IF d.status = "Ok" THEN FALSE ELSE @]
           /\ last' = Call("decrypt_value", d.status, "", <<>>)
    /\ UNCHANGED <<key, nonce_sequence, storeVars, rotVars, pre, sealed, nSealed,
                   opens, rc>>

NextCodec ==
    \/ encrypt_value
    \/ \E pos \in 1..Len(vc.value.data), b \in 0..MaxAlter :
         alter_blob(pos, W(b))
    \/ \E k \in KeySet : decrypt_value(k)

SpecCodec == InitCodec /\ [][NextCodec]_vars

\* --------------------------------------------- Row Crypto on its own
\* the rows encrypt_row_in_place is given
RowArgs == UNION {RowInputs(t) : t \in TableSet}

InitRow ==
    /\ key \in KeySet
    /\ nonce_sequence \in 0..MaxNonce
    /\ store = EmptyStore
    /\ pc = "idle"
    /\ rot = NoRot
    /\ pre = EmptyStore
    /\ plain = EmptyStore
    /\ sealed = {}
    /\ nSealed = 0
    /\ last = Call("new", "Ok", "", <<>>)
    /\ opens = 0
    /\ vc = NoCodec
    /\ \E row \in RowArgs : rc = [NoRowCodec EXCEPT !.row = row, !.arg = row]

\* encdec.rs 33-52 applied to rc.row; a failure leaves the values before the
\* failing one encrypted in the caller's row
encrypt_row ==
    /\ LET encrypted(e) ==
               /\ nonce_sequence' = e.seq
               /\ Log(key, e.nonces)
               /\ rc' = [row |-> e.row, arg |-> rc.row, rkey |-> key]
               /\ last' = [Call("encrypt_row", e.status, "", <<>>)
                              EXCEPT !.drawn = Len(e.nonces)]
       IN  encrypted(encrypt_row_in_place(key, nonce_sequence, rc.row))
    /\ UNCHANGED <<key, storeVars, rotVars, pre, opens, vc>>

\* encdec.rs 81-96 applied to rc.row, under key k
decrypt_row(k) ==
    /\ LET decrypted(d) ==
               /\ rc' = [row |-> d.row, arg |-> rc.row, rkey |-> k]
               /\ last' = Call("decrypt_row", d.status, "", <<>>)
       IN  decrypted(decrypt_row_in_place(k, rc.row))
    /\ UNCHANGED <<key, nonce_sequence, storeVars, rotVars, pre, sealed, nSealed,
                   opens, vc>>

NextRow ==
    \/ encrypt_row
    \/ \E k \in KeySet : decrypt_row(k)

SpecRow == InitRow /\ [][NextRow]_vars

\* ------------------------------------------------- the read path as calls
\* the DEFAULT values of a binary column: none, one shorter than a nonce, one
\* as long as the shortest blob
ColumnDefaults ==
    {Null, Bytea(<<W(1)>>), Bytea([i \in 1..NonceLen + TagLen |-> W(i)])}

\* lib.rs 154-165
fetch_data(t, k, fault) ==
    /\ pc = "idle"
    /\ last' = FetchResult(key, store[t], t, k, fault)
    /\ pre' = EmptyStore
    /\ rot' = NoRot
    /\ UNCHANGED <<key, nonce_sequence, storeVars, pc, sealed, nSealed, codecVars>>

\* lib.rs 167-180
scan_data(t, fault) ==
    /\ pc = "idle"
    /\ last' = ScanResult(key, store[t], t, fault)
    /\ pre' = EmptyStore
    /\ rot' = NoRot
    /\ UNCHANGED <<key, nonce_sequence, storeVars, pc, sealed, nSealed, codecVars>>

\* lib.rs 261-284: the rows of the index, here every row of the table; the
\* closure is the one of scan_data
scan_indexed_data(t, fault) ==
    /\ pc = "idle"
    /\ last' = [ScanResult(key, store[t], t, fault)
                   EXCEPT !.op = "scan_indexed_data"]
    /\ pre' = EmptyStore
    /\ rot' = NoRot
    /\ UNCHANGED <<key, nonce_sequence, storeVars, pc, sealed, nSealed, codecVars>>

NextRead ==
    \/ \E t \in TableSet : \E rows \in Batches(t) : append_data(t, rows)
    \/ \E t \in TableSet, d \in ColumnDefaults : add_column(t, d)
    \/ \E k \in KeySet : new(k)
    \/ \E t \in TableSet, k \in RowKeys, fault \in BOOLEAN : fetch_data(t, k, fault)
    \/ \E t \in TableSet, fault \in BOOLEAN : scan_data(t, fault)
    \/ \E t \in TableSet, fault \in BOOLEAN : scan_indexed_data(t, fault)

SpecRead == Init /\ [][NextRead]_vars

\* ------------------------------------- a store others write to as well
\* The underlying store is shared: between the scan of change_key
\* (lib.rs 88-94) and the fetch of a key (lib.rs 99-102) another handle
\* deletes a row.
delete_behind(t, k) ==
    /\ pc = "rotating"
    /\ store[t][k] # NoRow
    /\ store' = [store EXCEPT ![t][k] = NoRow]
    /\ plain' = [plain EXCEPT ![t][k] = NoRow]
    /\ UNCHANGED <<key, nonce_sequence, pc, rot, pre, sealed, nSealed, last,
                   codecVars>>

NextShared == Next \/ \E t \in TableSet, k \in RowKeys : delete_behind(t, k)

SpecShared == Init /\ [][NextShared]_vars

\* ------------------------------------------------ pass-through calls
\* the calls EncryptedStore hands to self.store as they are (lib.rs 146-152,
\* 182-195, 228-256, 289-349), besides delete_data and add_column
ForwardedOps ==
    {"fetch_schema", "fetch_all_schemas", "fetch_referencings",
     "insert_schema", "delete_schema", "rename_schema", "rename_column",
     "drop_column", "create_index", "drop_index", "scan_table_meta",
     "begin", "commit", "rollback", "fetch_function", "fetch_all_functions",
     "insert_function", "delete_function"}

\* what self.store answers
StoreResults == {"Ok", "StoreError"}

\* `self.store.op(args).await`: the answer of the underlying store is the
\* answer of the call
pass_through(op, result) ==
    /\ pc = "idle"
    /\ last' = Call(op, result, "", <<>>)
    /\ pre' = EmptyStore
    /\ rot' = NoRot
    /\ UNCHANGED <<key, nonce_sequence, storeVars, pc, sealed, nSealed, codecVars>>

NextForward ==
    \/ \E t \in TableSet : \E rows \in Batches(t) : append_data(t, rows)
    \/ \E t \in TableSet, k \in RowKeys : delete_data(t, k)
    \/ \E t \in TableSet, d \in Defaults : add_column(t, d)
    \/ \E op \in ForwardedOps, result \in StoreResults : pass_through(op, result)

SpecForward == Init /\ [][NextForward]_vars

\* the data calls alone, under one key
NextData ==
    \/ \E t \in TableSet : \E rows \in Batches(t) :
         \E ks \in KeyLists(Len(rows)) : insert_data(t, ks, rows)
    \/ \E t \in TableSet : \E rows \in Batches(t) : append_data(t, rows)
    \/ \E t \in TableSet, k \in RowKeys : delete_data(t, k)

SpecData == Init /\ [][NextData]_vars

\* ================================================================ claims
WriteOps == {"insert_data", "append_data"}

\* every value of every row the underlying store holds
StoredValues ==
    {store[t][k].vals[i] :
        <<t, k, i>> \in {x \in TableSet \X RowKeys \X (1..2) :
                            x[3] <= Len(store[x[1]][x[2]].vals)}}

\* C1: for a fixed key no two completed encryptions carry the same nonce
\* (the log of <<key, nonce>> pairs has as many members as there were
\* encryptions), and every encryption drew exactly one nonce from the
\* sequencer (as many encryptions as nonces issued).
C1_NonceNeverReused ==
    /\ Cardinality(sealed) = nSealed
    /\ nSealed = nonce_sequence

C1_Witness ==
    /\ nSealed >= 3
    /\ \E p \in sealed, q \in sealed : p[1] # q[1]
    /\ last.op = "change_key"
    /\ last.status = "Ok"

\* C2: decrypting, under the sealing key, the blob encrypt_value_in_place
\* just returned succeeds, reports that decryption was applied and gives back
\* the value that was sealed.
C2_RoundTrip ==
    (last.op = "decrypt_value" /\ vc.argFresh /\ vc.dkey = key)
        => /\ last.status = "Ok"
           /\ vc.applied
           /\ vc.value = vc.orig

C2_Witness ==
    /\ last.op = "decrypt_value"
    /\ vc.argFresh
    /\ vc.dkey = key
    /\ vc.orig.tag = "Bytea"
    /\ Len(vc.orig.data) > 0
    /\ vc.value = vc.orig

\* C3: every value insert_data or append_data hands to the underlying store
\* is a binary value holding a blob sealed under the active key (it opens
\* under that key, to the value the caller passed, and its nonce is one the
\* sequencer issued for that key).
C3_OnlySealedForwarded ==
    last.op \in WriteOps =>
        \A i \in 1..Len(last.rows) :
            LET it == last.rows[i]
            IN  /\ \A j \in 1..Len(it.row.vals) :
                      /\ SealedUnder(key, it.row.vals[j])
                      /\ <<key, NonceOf(it.row.vals[j])>> \in sealed
                /\ decrypt_row_in_place(key, it.row).row = plain[last.table][it.key]

C3_Witness ==
    /\ last.op = "append_data"
    /\ last.status = "Ok"
    /\ last.table = "Bar"
    /\ Len(last.rows) = 2
    /\ \E i \in 1..2 : Len(last.rows[i].row.vals) = 2

\* what an undecorated store returns
PlainFetch(t, k) ==
    IF plain[t][k] = NoRow THEN Call("fetch_data", "Ok", t, <<>>)
    ELSE Call("fetch_data", "Ok", t, <<Item(k, "Ok", plain[t][k])>>)

PlainScan(t) ==
    LET ks == ScanKeys(plain[t])
    IN  Call("scan_data", "Ok", t,
             [i \in 1..Len(ks) |-> Item(ks[i], "Ok", plain[t][ks[i]])])

\* C4: after any sequence of insert_data, append_data and delete_data calls
\* under one key, fetch_data and scan_data through the decorator return
\* exactly what an undecorated store given the same calls returns, while
\* every value the underlying store holds differs from the plaintext value.
C4_Transparent ==
    \A t \in TableSet :
        /\ ScanResult(key, store[t], t, FALSE) = PlainScan(t)
        /\ \A k \in RowKeys :
              /\ FetchResult(key, store[t], t, k, FALSE) = PlainFetch(t, k)
              /\ Len(store[t][k].vals) = Len(plain[t][k].vals)
              /\ \A i \in 1..Len(store[t][k].vals) :
                    store[t][k].vals[i] # plain[t][k].vals[i]

C4_Witness ==
    /\ last.op = "delete_data"
    /\ \E t \in TableSet, k \in RowKeys :
          /\ plain[t][k] # NoRow
          /\ Len(plain[t][k].vals) = 2
          /\ FetchResult(key, store[t], t, k, FALSE).rows[1].row = plain[t][k]

RotationDone == last.op = "change_key" /\ last.status = "Ok"

\* C5: when change_key succeeds, every table holds the row keys it held
\* before, and every row read through the returned decorator is the row that
\* was read through the old decorator before the rotation.
C5_RotationPreservesContent ==
    RotationDone =>
        /\ key = rot.new_key
        /\ \A t \in TableSet, k \in RowKeys :
              /\ (store[t][k] = NoRow) <=> (pre[t][k] = NoRow)
              /\ FetchResult(key, store[t], t, k, FALSE).status = "Ok"
              /\ FetchResult(key, store[t], t, k, FALSE)
                    = FetchResult(rot.old_key, pre[t], t, k, FALSE)

C5_Witness ==
    /\ RotationDone
    /\ rot.new_key # rot.old_key
    /\ Cardinality(rot.written) >= 2
    /\ \E k \in RowKeys : store["Foo"][k] # NoRow
    /\ \E k \in RowKeys : store["Bar"][k] # NoRow

\* C6: after a successful change_key every value of every row the underlying
\* store holds is a blob sealed under the new key.
C6_EverythingSealedAfterRotation ==
    RotationDone => \A v \in StoredValues : SealedUnder(key, v)

Errors == {"StoreError", "EncryptionError", "SerializationError", "InvalidValue",
           "Panic"}

\* C7: when a step of change_key fails the rotation ends at once with that
\* error: the rows it wrote back before stay as written (their blobs open
\* under the new key, to the content they had), the failing row and the rows
\* not yet visited are exactly as they were before the rotation.
C7_AbortLeavesMixedState ==
    pc = "aborted" =>
        /\ last.op = "change_key"
        /\ last.status \in Errors
        /\ \A i \in 2..Len(rot.tables), k \in RowKeys :
              <<rot.tables[i], k>> \notin rot.written
        /\ rot.scanned =>
              \A j \in 1..Len(rot.keys) :
                 <<Head(rot.tables), rot.keys[j]>> \notin rot.written
        /\ \A t \in TableSet, k \in RowKeys :
              IF <<t, k>> \in rot.written
              THEN /\ store[t][k] # NoRow
                   /\ \A j \in 1..Len(store[t][k].vals) :
                         store[t][k].vals[j].tag = "Bytea"
                            => SealedUnder(rot.new_key, store[t][k].vals[j])
                   /\ FetchResult(rot.new_key, store[t], t, k, FALSE).status = "Ok"
                   /\ FetchResult(rot.new_key, store[t], t, k, FALSE)
                         = FetchResult(rot.old_key, pre[t], t, k, FALSE)
              ELSE store[t][k] = pre[t][k]

\* a row that does not open under self.key stops a rotation that has
\* already written rows back
C7_Witness ==
    /\ pc = "aborted"
    /\ last.status = "EncryptionError"
    /\ nonce_sequence < MaxNonce
    /\ rot.new_key # rot.old_key
    /\ rot.written # {}
    /\ \E t \in TableSet, k \in RowKeys :
          /\ <<t, k>> \notin rot.written
          /\ store[t][k] # NoRow

\* C8: new over a store that holds blobs the key cannot open fails with
\* InvalidKey; over a store whose blobs the key opens it succeeds.
C8_NewValidatesKey ==
    last.op = "new" =>
        IF \E v \in StoredValues : v.tag = "Bytea" /\ ~SealedUnder(key, v)
        THEN last.status = "InvalidKey"
        ELSE last.status = "Ok"

\* C9: an insert_data or append_data call in which an encryption fails
\* returns an error, forwards nothing and leaves the underlying store as it
\* was.
C9_WriteAllOrNothing ==
    [][(last'.op \in WriteOps /\ last'.status # "Ok")
          => (store' = store /\ last'.rows = <<>>)]_vars

\* a call of two rows fails in its second row, after the first was encrypted
C9_Witness ==
    /\ last.op = "insert_data"
    /\ last.status = "StorageMsg"
    /\ last.drawn = 3
    /\ nonce_sequence = MaxNonce

\* C10: decrypt_value_in_place on a binary value succeeds only on a blob
\* encrypt_value_in_place produced under the same key; on a blob produced
\* under another key, or with a word of its nonce, ciphertext or tag altered,
\* it fails with EncryptionError.
C10_Authentic ==
    (last.op = "decrypt_value" /\ vc.arg.tag = "Bytea") =>
        /\ last.status = "Ok" => <<vc.dkey, vc.arg>> \in vc.produced
        /\ vc.argAltered => last.status = "EncryptionError"
        /\ (\E p \in vc.produced : p[2] = vc.arg /\ p[1] # vc.dkey)
              => last.status = "EncryptionError"

C10_Witness ==
    /\ last.op = "decrypt_value"
    /\ vc.argAltered
    /\ vc.dkey = key
    /\ last.status = "EncryptionError"
    /\ vc.value = vc.arg

\* C11: decrypt_value_in_place on a binary value shorter than nonce length
\* plus tag length (the empty buffer and buffers shorter than the nonce
\* included) returns the error InvalidValue.
C11_ShortBufferInvalidValue ==
    (/\ last.op = "decrypt_value"
     /\ vc.arg.tag = "Bytea"
     /\ Len(vc.arg.data) < NonceLen + TagLen)
        => last.status = "InvalidValue"

\* C12: decrypt_value_in_place on a value that is not Bytea returns Ok(false)
\* and leaves the value as it was, whatever the key.
C12_PlainPassThrough ==
    (last.op = "decrypt_value" /\ vc.arg.tag # "Bytea")
        => /\ last.status = "Ok"
           /\ ~vc.applied
           /\ vc.value = vc.arg

C12_Witness ==
    /\ last.op = "decrypt_value"
    /\ vc.arg = I64(1)
    /\ vc.dkey # key
    /\ last.status = "Ok"
    /\ vc.value = I64(1)

\* C18: when decrypt_value_in_place does not return Ok, the value still
\* holds the bytes it held before the call.
C18_FailedDecryptKeepsValue ==
    (last.op = "decrypt_value" /\ last.status # "Ok") => vc.value = vc.arg

\* a blob sealed under one key fails to open under another and stays as it was
C18_Witness ==
    /\ last.op = "decrypt_value"
    /\ last.status = "EncryptionError"
    /\ vc.argFresh
    /\ vc.dkey # key
    /\ Len(vc.arg.data) >= NonceLen + TagLen
    /\ vc.value = vc.arg

RowOps == {"encrypt_row", "decrypt_row"}

\* C13: encrypt_row_in_place and decrypt_row_in_place keep the shape of the
\* row: the same variant, the same column names, the same number of values;
\* each position holds what was there before or, once the call got to it,
\* its encryption (resp. decryption); after a successful call every position
\* holds the encryption (resp. decryption) of the value that was there.
C13_RowShape ==
    (last.op \in RowOps /\ last.status # "Panic") =>
        /\ rc.row.kind = rc.arg.kind
        /\ rc.row.cols = rc.arg.cols
        /\ Len(rc.row.vals) = Len(rc.arg.vals)
        /\ \A i \in 1..Len(rc.arg.vals) :
              LET before == rc.arg.vals[i]
                  after == rc.row.vals[i]
                  changed ==
                      IF last.op = "encrypt_row"
                      THEN /\ SealedUnder(rc.rkey, after)
                           /\ decrypt_value_in_place(rc.rkey, after).value = before
                      ELSE after = decrypt_value_in_place(rc.rkey, before).value
              IN  IF last.status = "Ok" THEN changed
                  ELSE after = before \/ changed

\* a named row of two columns sealed under one key fails to open under
\* another key
C13_Witness ==
    /\ last.op = "decrypt_row"
    /\ last.status = "EncryptionError"
    /\ rc.row.kind = "Map"
    /\ Len(rc.row.cols) = 2
    /\ rc.rkey # key
    /\ \A i \in 1..2 : SealedUnder(key, rc.arg.vals[i])

\* every value of the row opens under k or is passed through
Opens(k, row) ==
    \A i \in 1..Len(row.vals) : decrypt_value_in_place(k, row.vals[i]).status = "Ok"

\* the row with every value replaced by what decrypt_value_in_place leaves
Opened(k, row) ==
    [row EXCEPT !.vals = [i \in 1..Len(row.vals) |->
                            decrypt_value_in_place(k, row.vals[i]).value]]

\* what the read path owes the caller for one stored row
Owed(k, rk, row) ==
    IF Opens(k, row) THEN Item(rk, "Ok", Opened(k, row))
    ELSE Item(rk, "StorageMsg", NoRow)

\* C14: fetch_data, scan_data and scan_indexed_data hand an error of the
\* underlying store and an absent row through as they are; a stored row is
\* yielded decrypted under the active key, and a row that does not decrypt
\* gives a store error (StorageMsg) for that row and no row.
C14_ReadPath ==
    \A t \in TableSet :
        /\ ScanResult(key, store[t], t, TRUE)
              = Call("scan_data", "StoreError", t, <<>>)
        /\ LET ks == ScanKeys(store[t])
           IN  ScanResult(key, store[t], t, FALSE)
                  = Call("scan_data", "Ok", t,
                         [i \in 1..Len(ks) |-> Owed(key, ks[i], store[t][ks[i]])])
        /\ \A k \in RowKeys :
              /\ FetchResult(key, store[t], t, k, TRUE)
                    = Call("fetch_data", "StoreError", t, <<>>)
              /\ FetchResult(key, store[t], t, k, FALSE)
                    = IF store[t][k] = NoRow THEN Call("fetch_data", "Ok", t, <<>>)
                      ELSE IF Opens(key, store[t][k])
                      THEN Call("fetch_data", "Ok", t,
                                <<Owed(key, k, store[t][k])>>)
                      ELSE Call("fetch_data", "StorageMsg", t, <<>>)

\* C15: in change_key, when the row of the next key of the scan is gone, the
\* step that fetches it ends the rotation with InvalidValue (or with the
\* error of the underlying store, if the fetch itself failed) and writes
\* nothing: the store, the sequencer and the keys left to visit stay as they
\* were.
C15_MissingRowInvalidValue ==
    [][(/\ pc = "rotating"
        /\ rot.scanned
        /\ rot.keys # <<>>
        /\ store[Head(rot.tables)][Head(rot.keys)] = NoRow
        /\ (pc' # pc \/ rot' # rot))
          => (/\ pc' = "aborted"
              /\ last'.op = "change_key"
              /\ last'.status \in {"InvalidValue", "StoreError"}
              /\ last'.rows = <<>>
              /\ store' = store
              /\ nonce_sequence' = nonce_sequence
              /\ rot' = rot)]_vars

\* the rotation wrote a row back, then met a key whose row had been deleted
C15_Witness ==
    /\ pc = "aborted"
    /\ last.status = "InvalidValue"
    /\ rot.written # {}
    /\ rot.keys # <<>>
    /\ store[Head(rot.tables)][Head(rot.keys)] = NoRow
    /\ pre[Head(rot.tables)][Head(rot.keys)] # NoRow

PassThroughOps == ForwardedOps \cup {"delete_data", "add_column"}

\* C16: a pass-through call leaves the active key and the nonce sequencer as
\* they were and seals nothing; it answers what the underlying store
\* answered; and what it does to the underlying store is what the same call
\* does to an undecorated store: a row is removed in both, or the same value
\* is appended to it in both, or it is left alone in both.
C16_PassThrough ==
    [][last'.op \in PassThroughOps =>
          /\ key' = key
          /\ nonce_sequence' = nonce_sequence
          /\ sealed' = sealed
          /\ nSealed' = nSealed
          /\ last'.status \in StoreResults
          /\ last'.drawn = 0
          /\ \A t \in TableSet, k \in RowKeys :
                \/ store'[t][k] = store[t][k] /\ plain'[t][k] = plain[t][k]
                \/ /\ store[t][k] # NoRow
                   /\ store'[t][k] = NoRow
                   /\ plain'[t][k] = NoRow
                \/ \E d \in Defaults :
                      /\ store'[t][k] = [store[t][k] EXCEPT !.vals = Append(@, d)]
                      /\ plain'[t][k] = [plain[t][k] EXCEPT !.vals = Append(@, d)]
      ]_vars

\* a column was added to a table that holds sealed rows, after nonces were
\* drawn
C16_Witness ==
    /\ last.op = "add_column"
    /\ nonce_sequence > 0
    /\ \E k \in RowKeys :
          /\ Len(store["Foo"][k].vals) = 2
          /\ SealedUnder(key, store["Foo"][k].vals[1])
          /\ store["Foo"][k].vals[2] = Null

\* C17: while change_key runs and after it aborted, every stored row is the
\* row it was before the rotation or a row the rotation wrote back, all of
\* whose blobs open under the new key, to the content the row had; and no
\* stored row holds a blob only the old key opens next to a blob only the
\* new key opens.
C17_RowAtomicRotation ==
    pc \in {"rotating", "aborted"} =>
        \A t \in TableSet, k \in RowKeys :
            /\ \/ store[t][k] = pre[t][k]
               \/ /\ <<t, k>> \in rot.written
                  /\ pre[t][k] # NoRow
                  /\ Opens(rot.new_key, store[t][k])
                  /\ Opened(rot.new_key, store[t][k]) = Opened(rot.old_key, pre[t][k])
            /\ ~ \E i, j \in 1..Len(store[t][k].vals) :
                    /\ SealedUnder(rot.old_key, store[t][k].vals[i])
                    /\ ~SealedUnder(rot.new_key, store[t][k].vals[i])
                    /\ SealedUnder(rot.new_key, store[t][k].vals[j])
                    /\ ~SealedUnder(rot.old_key, store[t][k].vals[j])

\* the rotation stopped inside a row: the last nonce was drawn for the new
\* key, and no stored blob carries it
C17_Witness ==
    /\ pc = "aborted"
    /\ last.status = "EncryptionError"
    /\ rot.new_key # rot.old_key
    /\ <<rot.new_key, Digits(MaxNonce - 1, NonceLen)>> \in sealed
    /\ \A v \in StoredValues :
          v.tag = "Bytea" => NonceOf(v) # Digits(MaxNonce - 1, NonceLen)
====
